---- MODULE Spec2Model ----
(***************************************************************************)
(* Hazard-intelligence engine of the AFRO STORM pipeline.                  *)
(*                                                                         *)
(* Independent parts of the repository are modelled, each with its own    *)
(* specification over the shared variable list:                            *)
(*   SpecMonitor     detection/realtime_monitor.py (cycle, daemon loop)    *)
(*   SpecDetect      detection/realtime_monitor.py (detection columns)     *)
(*   SpecLandslide   detection/landslide_risk.py   (cell risk, zones)      *)
(*   SpecAlerts      alerts/guerrilla_alerts.py    (fan-out, tracking)     *)
(*   SpecValidation  alerts/guerrilla_alerts.py    (validation events)     *)
(*   SpecSms         services/alert_service.py     (alert ids, SMS)        *)
(*   SpecConvergence data_sources/who_fetcher.py   (convergence risk)      *)
(*   SpecQuery       api/hazards_api.py            (fetcher cache)         *)
(*   SpecUnified     api/hazards_api.py            (unified response)      *)
(*   SpecFeed        api/hazards_routes.py         (realtime feed)         *)
(* Spec is their interleaving.                                             *)
(***************************************************************************)
EXTENDS Integers, Sequences, FiniteSets, TLC

(***************************************************************************)
(* Bounds of the model                                                     *)
(***************************************************************************)
\* number of cycles the daemon is allowed to start
MaxCycles == 2
\* number of features one FNV3 fetch returns at most
MaxFeatures == 1
\* last value of the alert clock
MaxNow == 1
\* rows the sent_alerts table may hold
MaxAlerts == 2
\* rows the tracking_opens table may hold
MaxOpens == 2
\* rows the validation_events table may hold
MaxValidations == 2
\* last value of the API clock, in seconds
MaxClock == 450

\* numbers in one call of send_sms, and calls of send_sms
MaxPhones == 2
MaxSms == 2
\* last value of the service's clock, in half seconds
MaxServiceClock == 2

\* cells of the terrain grid of one landslide assessment
MaxCells == 2

\* rows the adapters' detections are followed into the table for
MaxSaved == 2
\* last value of the monitor's clock
MaxMonitorClock == 2

\* outbreaks and cyclones in one call of check_convergence
MaxOutbreaks == 2
MaxCycloneData == 2

\* distance_threshold_km of check_convergence, and the distance below which a
\* convergence is HIGH, in hundredths of a kilometre
distance_threshold_km == 50000
high_priority_km == 20000

(***************************************************************************)
(* Program constants                                                       *)
(***************************************************************************)
\* CONFIG["alerts"]["high_probability_threshold"], in hundredths
high_probability_threshold == 70
\* sleep_chunk of run_daemon, in seconds
sleep_chunk == 60
\* CONFIG["cache_ttl_seconds"] of api/hazards_api.py
cache_ttl_seconds == 300
\* CONFIG["detection"]["min_pressure_hpa"]
min_pressure_hpa == 1005
\* CONFIG["detection"]["min_wind_ms"]: 17 m/s, in units of 1/2430 m/s
min_wind_ms == 41310

VARIABLES
    \* ---- detection/realtime_monitor.py ----
    pc,             \* position of the daemon thread
    cycle,          \* number of run_once invocations started so far
    running,        \* RealtimeCycloneMonitor.running
    stop_event,     \* RealtimeCycloneMonitor._stop_event
    all_detections, \* run_once local
    loop_i,         \* index of the detection the persist loop is at
    detection_id,   \* run_once local: id returned by save_detection
    alerts_sent,    \* run_once local
    data_sources,   \* run_once local
    fnv3_failed,    \* the fetch_latest call of this cycle hit one of its excepts
    detections,     \* table detections
    alerts,         \* table alerts
    monitor_runs,   \* table monitor_runs
    in_progress,    \* set of cycles that have begun and not yet ended
    result,         \* what the last run_once returned
    cancellation,   \* a shutdown signal received in the sleep loop: the
                    \* cycle count then, the seconds slept since, and the
                    \* seconds left of the time.sleep call under way
    \* ---- alerts/guerrilla_alerts.py ----
    now,            \* datetime.utcnow() as seen by the alert system, in hours
    alerts_loaded,  \* guerrilla_alerts.py has been imported
    smtp_configured,\* CONFIG["smtp"] has a username and a password
    sent_alerts,    \* table sent_alerts
    tracking_opens, \* table tracking_opens
    open_calls,     \* number of calls of log_tracking_open so far
    last_fanout,    \* the latest call of send_hazard_alert: arguments, what
                    \* it rendered and sent, what it returned
    \* ---- api/hazards_api.py, api/hazards_routes.py ----
    clock,          \* datetime.utcnow() as seen by the API, in seconds
    detections_tbl, \* table detections as the fetcher finds it
    floods_tbl,     \* table floods as the fetcher finds it
    _cache,         \* HazardDataFetcher._cache
    _cache_time,    \* HazardDataFetcher._cache_time
    last_query,     \* the latest call of a fetcher method
    routes_loaded,  \* hazards_routes.py has been imported
    DETECTORS_AVAILABLE, \* hazards_routes.DETECTORS_AVAILABLE
    last_response,  \* the latest answer of get_realtime_hazards
    \* ---- services/alert_service.py ----
    service_made,   \* AlertService() has been constructed
    twilio_client,  \* AlertService.twilio_client is set
    africastalking_client, \* AlertService.africastalking_client is set
    service_alerts_sent,   \* AlertService.alerts_sent
    service_clock,  \* datetime.now() as seen by the service, in half seconds
    last_sms,       \* the latest call of send_sms: the numbers, the calls of
                    \* the provider made for each, and the result returned
    \* ---- data_sources/who_fetcher.py ----
    last_check,     \* the latest call of check_convergence: its arguments,
                    \* the list returned and, for each record of it, the pair
                    \* it was made from and the local variable distance
    \* ---- api/hazards_api.py, get_convergences ----
    last_unified,   \* the latest call of get_convergences: the window, the
                    \* outbreaks known at the time, and the list returned
    \* ---- detection/realtime_monitor.py, the columns of a detection ----
    saved,          \* rows of detections with the columns the adapters fill
    monitor_clock,  \* datetime.utcnow() as seen by the monitor
    \* ---- alerts/guerrilla_alerts.py, validation ----
    validation_events, \* table validation_events
    validation_calls,  \* number of calls of log_validation so far
    \* ---- detection/landslide_risk.py ----
    last_assessment \* the latest call of _calculate_risk_zones: the terrain,
                    \* the rainfall, what _calculate_cell_risk returned for
                    \* each cell, and the list returned

monitorVars == <<pc, cycle, running, stop_event, all_detections,
                 loop_i, detection_id, alerts_sent, data_sources, fnv3_failed,
                 detections, alerts, monitor_runs, in_progress, result,
                 cancellation>>

alertVars == <<now, alerts_loaded, smtp_configured, sent_alerts, tracking_opens, open_calls,
               last_fanout>>

queryVars == <<clock, detections_tbl, floods_tbl, _cache, _cache_time,
               last_query, routes_loaded, DETECTORS_AVAILABLE, last_response>>

smsVars == <<service_made, twilio_client, africastalking_client,
             service_alerts_sent, service_clock, last_sms>>

convVars == <<last_check>>

unifiedVars == <<last_unified>>

detectVars == <<saved, monitor_clock>>

validationVars == <<validation_events, validation_calls>>

landslideVars == <<last_assessment>>

vars == <<monitorVars, alertVars, queryVars, smsVars, convVars, unifiedVars,
          detectVars, validationVars, landslideVars>>

(***************************************************************************)
(* detection/realtime_monitor.py                                           *)
(***************************************************************************)

\* confidences a provider can report, in hundredths
Confidences == {50, 70}

\* what FNV3Source.fetch_latest can return: one detection per feature of
\* the upstream response, or the empty list when the request fails
FNV3Detection(c) == [source |-> "fnv3", confidence |-> c]

FNV3Results ==
    UNION { [1..n -> {FNV3Detection(c) : c \in Confidences}] : n \in 0..MaxFeatures }

\* what CycloneDetector.detect_from_era5 can return
ERA5Results == { <<>> } \cup { <<[source |-> "era5", confidence |-> c]>> : c \in {50, 90} }

\* mutant of lastrowid: the id handed back is not the id of the row written
lastrowid_stale(tbl) == tbl[Len(tbl)].id + 1

\* cursor.lastrowid after the INSERT: the id of the row just written
lastrowid(tbl) == tbl[Len(tbl)].id

\* CycloneDatabase.save_detection: the table after the INSERT
save_detection(tbl, detection, cyc) ==
    Append(tbl, [id |-> Len(tbl) + 1, cycle |-> cyc,
                 source |-> detection.source,
                 confidence |-> detection.confidence])

\* CycloneDatabase.save_alert: the table after the INSERT
save_alert(tbl, alert_record, cyc) ==
    Append(tbl, [id |-> Len(tbl) + 1, cycle |-> cyc,
                 detection_id |-> alert_record.detection_id,
                 alert_type |-> alert_record.alert_type,
                 status |-> alert_record.status])

\* CycloneDatabase.log_run: the table after the INSERT
log_run(tbl, run_data) == Append(tbl, run_data)

\* mutant of below_threshold: a confidence equal to the threshold returns
\* early too
below_threshold_inclusive(detection) ==
    detection.confidence <= high_probability_threshold

\* AlertSystem.check_and_alert: the early return on low confidence
below_threshold(detection) == detection.confidence < high_probability_threshold

\* mutant of DaemonAtLoopHead: the loop starts run_once without waiting for
\* the previous call to return
DaemonAtLoopHead_nowait == pc \in {"loop_head", "loop", "alert"}

\* run_daemon: the loop calls run_once and waits for it to return
DaemonAtLoopHead == pc = "loop_head"

\* the instants of a time.sleep(sleep_chunk) call at which a signal can
\* arrive, in seconds since the call began
ChunkInstants == {0, 30}

\* no shutdown signal in the sleep loop so far
NoCancellation == [pending |-> FALSE, cycle |-> 0, age |-> 0, remaining |-> 0]

MonitorInit ==
    /\ pc = "loop_head"
    /\ cycle = 0
    /\ running = TRUE
    /\ stop_event = FALSE
    /\ all_detections = <<>>
    /\ loop_i = 1
    /\ detection_id = 0
    /\ alerts_sent = 0
    /\ data_sources = <<>>
    /\ fnv3_failed = FALSE
    /\ detections = <<>>
    /\ alerts = <<>>
    /\ monitor_runs = <<>>
    /\ in_progress = {}
    /\ result = "none"
    /\ cancellation = NoCancellation

\* while self.running: self.run_once()   -- run_once up to the try
RunOnceBegin ==
    /\ DaemonAtLoopHead
    /\ running
    /\ cycle < MaxCycles
    /\ cycle' = cycle + 1
    /\ in_progress' = in_progress \cup {cycle + 1}
    /\ all_detections' = <<>>
    /\ alerts_sent' = 0
    /\ data_sources' = <<>>
    /\ fnv3_failed' = FALSE
    /\ loop_i' = 1
    /\ pc' = "fetch_fnv3"
    /\ UNCHANGED <<running, stop_event, detection_id, detections,
                   alerts, monitor_runs, result>>
    /\ UNCHANGED cancellation

\* while self.running: false, the loop is left
DaemonExit ==
    /\ DaemonAtLoopHead
    /\ ~running
    /\ pc' = "stopped"
    /\ UNCHANGED <<cycle, running, stop_event, all_detections,
                   loop_i, detection_id, alerts_sent, data_sources, detections,
                   alerts, monitor_runs, in_progress, result>>
    /\ UNCHANGED fnv3_failed
    /\ UNCHANGED cancellation

\* 1. Fetch FNV3 forecasts: fetch_latest returns the detections of the
\* features it parsed. When the request, response.json() or the reading of a
\* feature raises, the except clauses log and the detections appended before
\* the exception are returned.
FetchFNV3 ==
    /\ pc = "fetch_fnv3"
    /\ \E fnv3_detections \in FNV3Results, failed \in BOOLEAN :
        /\ all_detections' = all_detections \o fnv3_detections
        /\ data_sources' = IF fnv3_detections # <<>>
                           THEN Append(data_sources, "fnv3") ELSE data_sources
        /\ fnv3_failed' = failed
    /\ pc' = "fetch_era5"
    /\ UNCHANGED <<cycle, running, stop_event, loop_i, detection_id,
                   alerts_sent, detections, alerts, monitor_runs, in_progress,
                   result>>
    /\ UNCHANGED cancellation

\* 2. Download and analyze ERA5: no file, a file that detection reads, or a
\* file whose dataset has no time variable (KeyError outside the inner try)
FetchERA5 ==
    /\ pc = "fetch_era5"
    /\ \/ /\ pc' = "loop"
          /\ UNCHANGED <<all_detections, data_sources>>
       \/ \E era5_detections \in ERA5Results :
            /\ all_detections' = all_detections \o era5_detections
            /\ data_sources' = IF era5_detections # <<>>
                               THEN Append(data_sources, "era5") ELSE data_sources
            /\ pc' = "loop"
       \/ /\ pc' = "except"
          /\ UNCHANGED <<all_detections, data_sources>>
    /\ UNCHANGED <<cycle, running, stop_event, loop_i, detection_id,
                   alerts_sent, detections, alerts, monitor_runs, in_progress,
                   result>>
    /\ fnv3_failed' = FALSE
    /\ UNCHANGED cancellation

\* 3. for detection in all_detections: detection_id = self.db.save_detection(..)
\* the INSERT commits, or sqlite raises and nothing is written
SaveDetection ==
    /\ pc = "loop"
    /\ loop_i <= Len(all_detections)
    /\ \/ /\ detections' = save_detection(detections, all_detections[loop_i], cycle)
          /\ detection_id' = lastrowid(detections')
          /\ pc' = "alert"
       \/ /\ pc' = "except"
          /\ UNCHANGED <<detections, detection_id>>
    /\ UNCHANGED <<cycle, running, stop_event, all_detections,
                   loop_i, alerts_sent, data_sources, alerts, monitor_runs,
                   in_progress, result>>
    /\ UNCHANGED fnv3_failed
    /\ UNCHANGED cancellation

\* if self.alert_system.check_and_alert(detection, detection_id): alerts_sent += 1
CheckAndAlert ==
    /\ pc = "alert"
    /\ IF below_threshold(all_detections[loop_i])
       THEN /\ pc' = "loop"
            /\ loop_i' = loop_i + 1
            /\ UNCHANGED <<alerts, alerts_sent>>
       ELSE \/ /\ alerts' = save_alert(alerts,
                                 [detection_id |-> detection_id,
                                  alert_type |-> "cyclone_warning",
                                  status |-> "logged"], cycle)
               /\ alerts_sent' = alerts_sent + 1
               /\ loop_i' = loop_i + 1
               /\ pc' = "loop"
            \/ /\ pc' = "except"
               /\ UNCHANGED <<alerts, alerts_sent, loop_i>>
    /\ UNCHANGED <<cycle, running, stop_event, all_detections,
                   detection_id, data_sources, detections, monitor_runs,
                   in_progress, result>>
    /\ UNCHANGED fnv3_failed
    /\ UNCHANGED cancellation

\* the locals of run_once are gone once it has returned or raised
LocalsDropped ==
    /\ all_detections' = <<>>
    /\ loop_i' = 1
    /\ detection_id' = 0
    /\ alerts_sent' = 0
    /\ data_sources' = <<>>
    /\ fnv3_failed' = FALSE

\* self.db.log_run({... "status": "success"}) and the return of the try block
LogRunSuccess ==
    /\ pc = "loop"
    /\ loop_i > Len(all_detections)
    /\ \/ /\ monitor_runs' = log_run(monitor_runs,
                                [cycle |-> cycle, status |-> "success",
                                 data_source |-> data_sources,
                                 detections_count |-> Len(all_detections),
                                 alerts_sent |-> alerts_sent])
          /\ result' = "success"
          /\ in_progress' = in_progress \ {cycle}
          /\ LocalsDropped
          /\ pc' = "sleep"
       \/ /\ pc' = "except"
          /\ UNCHANGED <<monitor_runs, result, in_progress, all_detections,
                         loop_i, detection_id, alerts_sent, data_sources,
                         fnv3_failed>>
    /\ UNCHANGED <<cycle, running, stop_event, detections, alerts>>
    /\ UNCHANGED cancellation

\* except Exception as e: self.db.log_run({... "status": "error"})
\* run_data has no detections_count and no alerts_sent: log_run stores 0.
\* When this log_run raises too, the exception leaves run_once and run_daemon.
ExceptLogRun ==
    /\ pc = "except"
    /\ \/ /\ monitor_runs' = log_run(monitor_runs,
                                [cycle |-> cycle, status |-> "error",
                                 data_source |-> data_sources,
                                 detections_count |-> 0,
                                 alerts_sent |-> 0])
          /\ result' = "error"
          /\ pc' = "sleep"
       \/ /\ result' = "raised"
          /\ pc' = "crashed"
          /\ UNCHANGED monitor_runs
    /\ in_progress' = in_progress \ {cycle}
    /\ LocalsDropped
    /\ UNCHANGED <<cycle, running, stop_event, detections, alerts>>
    /\ UNCHANGED cancellation

\* mutant of stop_observed: the sleep loop does not look at the event
stop_observed_never == FALSE

\* if self._stop_event.is_set(): break
stop_observed == stop_event

\* for _ in range(interval_seconds // sleep_chunk):
\*     if self._stop_event.is_set(): break
\*     time.sleep(sleep_chunk)
\* The range has 360 iterations; the model keeps only whether the loop goes
\* on (one more chunk is slept) or is left (break, or the range is exhausted).
\* Time is followed from a shutdown signal on only: a time.sleep that begins
\* after the signal has sleep_chunk seconds to go.
SleepChunk ==
    /\ pc = "sleep"
    /\ cancellation.remaining = 0
    /\ \/ /\ ~stop_observed
          /\ pc' = "sleep"
          /\ cancellation' =
                IF cancellation.pending
                THEN [cancellation EXCEPT !.remaining = sleep_chunk]
                ELSE cancellation
       \/ /\ pc' = "loop_head"
          /\ UNCHANGED cancellation
    /\ UNCHANGED <<cycle, running, stop_event, all_detections, loop_i,
                   detection_id, alerts_sent, data_sources, detections, alerts,
                   monitor_runs, in_progress, result, fnv3_failed>>

\* the time.sleep(sleep_chunk) under way when the signal arrived goes on to
\* its end (a signal handler that returns normally does not cut the sleep
\* short). Statements other than time.sleep take no time.
TimeSleep ==
    /\ pc = "sleep"
    /\ cancellation.remaining > 0
    /\ cancellation' = [cancellation EXCEPT !.age = @ + cancellation.remaining,
                                            !.remaining = 0]
    /\ UNCHANGED <<pc, cycle, running, stop_event, all_detections, loop_i,
                   detection_id, alerts_sent, data_sources, detections, alerts,
                   monitor_runs, in_progress, result, fnv3_failed>>

\* signal_handler: SIGINT or SIGTERM while the daemon runs. In the sleep loop
\* the signal finds the daemon at the test of the event, or inside
\* time.sleep at one of ChunkInstants.
SignalHandler ==
    /\ pc \notin {"stopped", "crashed"}
    /\ running
    /\ running' = FALSE
    /\ stop_event' = TRUE
    /\ IF pc = "sleep"
       THEN \E remaining \in {0} \cup {sleep_chunk - e : e \in ChunkInstants} :
              cancellation' = [pending |-> TRUE, cycle |-> cycle, age |-> 0,
                               remaining |-> remaining]
       ELSE UNCHANGED cancellation
    /\ UNCHANGED <<pc, cycle, all_detections, loop_i, detection_id,
                   alerts_sent, data_sources, detections, alerts, monitor_runs,
                   in_progress, result, fnv3_failed>>

MonitorNext ==
    \/ RunOnceBegin
    \/ DaemonExit
    \/ FetchFNV3
    \/ FetchERA5
    \/ SaveDetection
    \/ CheckAndAlert
    \/ LogRunSuccess
    \/ ExceptLogRun
    \/ SleepChunk
    \/ TimeSleep
    \/ SignalHandler

(***************************************************************************)
(* alerts/guerrilla_alerts.py                                              *)
(***************************************************************************)

\* SQL NULL in a column that otherwise holds a time
NULL == -1

\* hazard_data of the fan-out record before any call
NoHazard == [id |-> "", type |-> "", lat |-> 0, lon |-> 0]

\* INSTITUTIONAL_RECIPIENTS: the names of each country's recipients, in order
INSTITUTIONAL_RECIPIENTS ==
    [mozambique |-> <<"INAM", "INGD", "WHO Mozambique">>,
     madagascar |-> <<"Meteo Madagascar", "BNGRC", "WHO Madagascar">>,
     malawi     |-> <<"DoDMA", "WHO Malawi">>,
     zimbabwe   |-> <<"MSD Zimbabwe", "Civil Protection">>,
     regional   |-> <<"ACMAD", "ICPAC", "WHO AFRO">>]

\* hazards handed to send_hazard_alert; lat and lon in tenths of a degree
Hazards ==
    { [id |-> "h1", type |-> "cyclone",   lat |-> -220, lon |-> 353],
      [id |-> "h2", type |-> "flood",     lat |-> -189, lon |-> 475],
      [id |-> "h3", type |-> "landslide", lat |-> -220, lon |-> 353],
      [id |-> "h4", type |-> "cyclone",   lat |-> 0,    lon |-> 0] }

\* the calls of send_hazard_alert that are made: hazard_data, the countries
\* argument (<<>> stands for None) and dry_run
FanoutCalls ==
    { [hazard |-> h, countries |-> <<>>, dry_run |-> FALSE] : h \in Hazards }
    \cup { [hazard |-> h, countries |-> <<"malawi", "atlantis">>, dry_run |-> d] :
             h \in {x \in Hazards : x.id = "h1"}, d \in BOOLEAN }

\* mutant of _detect_countries: the boxes are tested on the latitude only
_detect_countries_by_latitude(hazard_data) ==
    LET lat == hazard_data.lat
    IN  (IF -270 < lat /\ lat < -100 THEN <<"mozambique">> ELSE <<>>)
     \o (IF -260 < lat /\ lat < -120 THEN <<"madagascar">> ELSE <<>>)
     \o (IF -170 < lat /\ lat < -90 THEN <<"malawi">> ELSE <<>>)
     \o (IF -230 < lat /\ lat < -150 THEN <<"zimbabwe">> ELSE <<>>)
     \o (IF -300 < lat /\ lat < 0 THEN <<"regional">> ELSE <<>>)

\* GuerrillaAlertSender._detect_countries; lat and lon stand for
\* hazard_data["location"]["lat"] and hazard_data["location"]["lon"]
_detect_countries(hazard_data) ==
    LET lat == hazard_data.lat
        lon == hazard_data.lon
    IN  (IF -270 < lat /\ lat < -100 /\ 300 < lon /\ lon < 420
         THEN <<"mozambique">> ELSE <<>>)
     \o (IF -260 < lat /\ lat < -120 /\ 430 < lon /\ lon < 510
         THEN <<"madagascar">> ELSE <<>>)
     \o (IF -170 < lat /\ lat < -90 /\ 320 < lon /\ lon < 360
         THEN <<"malawi">> ELSE <<>>)
     \o (IF -230 < lat /\ lat < -150 /\ 250 < lon /\ lon < 340
         THEN <<"zimbabwe">> ELSE <<>>)
     \o (IF -300 < lat /\ lat < 0 /\ 300 < lon /\ lon < 800
         THEN <<"regional">> ELSE <<>>)

\* hashlib.md5(text).hexdigest()[:16]: a digest that is equal for equal texts
\* and, for the texts the program builds, different for different texts
md5_16(text) == [md5 |-> text]

\* f"{hazard_data.get('id', '')}_{country}_{datetime.utcnow().isoformat()}"
hazard_tracking_text(hazard_id, country, iso) ==
    [fmt |-> "id_country_iso", parts |-> <<hazard_id, country>>, iso |-> iso]

\* f"{alert_id}_{datetime.utcnow().isoformat()}"; an alert_id (12 characters
\* of a uuid4) contains no underscore, so this text is never one of the above
alert_tracking_text(alert_id, iso) ==
    [fmt |-> "alertid_iso", parts |-> <<alert_id>>, iso |-> iso]

\* str(uuid.uuid4())[:12]: the n-th identifier drawn
uuid4_12(n) == <<"uuid", n>>

\* mutant of known_hazard_type: the flood branch is missing
known_hazard_type_cyclone_only(hazard_type) == hazard_type = "cyclone"

\* send_hazard_alert: the hazard types an email is built for; any other
\* type logs "Unknown hazard type" and skips the country
known_hazard_type(hazard_type) == hazard_type \in {"cyclone", "flood"}

\* AlertEmailBuilder: only the cyclone html carries the tracking pixel
\* <img src="{pixel_url}/{tracking_id}.png">
html_has_pixel(hazard_type) == hazard_type = "cyclone"

\* AlertDatabase.log_sent_alert: the table after the INSERT
log_sent_alert(tbl, alert_data, t) ==
    LET alert_id == uuid4_12(Len(tbl) + 1)
        tracking_id == md5_16(alert_tracking_text(alert_id, t))
    IN  Append(tbl, [alert_id |-> alert_id,
                     hazard_type |-> alert_data.hazard_type,
                     hazard_id |-> alert_data.hazard_id,
                     country |-> alert_data.country,
                     recipients |-> alert_data.recipients,
                     sent_at |-> t,
                     tracking_pixel_id |-> tracking_id,
                     opened_at |-> NULL,
                     validated |-> FALSE])

\* mutant of send_emails: _send_email does not look at the SMTP credentials
send_emails_unguarded(recipients, refused) ==
    [r \in DOMAIN recipients |-> r \notin refused]

\* GuerrillaAlertSender._send_email for each recipient of a country, in order:
\* False without sending when SMTP is not configured, False when the SMTP
\* exchange raises, True otherwise
send_emails(recipients, refused) ==
    [r \in DOMAIN recipients |-> smtp_configured /\ r \notin refused]

\* what send_hazard_alert makes of the value of _send_email: the line
\* "Sent to" or the line "Failed to send" of the log
email_outcome(success) == IF success THEN "sent" ELSE "failed"

\* send_hazard_alert, the loop over countries from position i on.
\* call: the arguments, the time, and refused: the positions in a recipient
\*       list whose SMTP exchange fails during the call
\* st: the table, the ids to return, what was rendered and sent so far
RECURSIVE fan_out(_, _, _)
fan_out(i, call, st) ==
    IF i > Len(call.countries) THEN st
    ELSE
      LET country == call.countries[i] IN
      IF country \notin DOMAIN INSTITUTIONAL_RECIPIENTS
      THEN fan_out(i + 1, call, st)
      ELSE
        LET recipients == INSTITUTIONAL_RECIPIENTS[country]
            tracking_id ==
                md5_16(hazard_tracking_text(call.hazard.id, country, call.t))
        IN
        IF ~known_hazard_type(call.hazard.type)
        THEN fan_out(i + 1, call, st)
        ELSE
          LET tbl == log_sent_alert(st.tbl,
                        [hazard_type |-> call.hazard.type,
                         hazard_id |-> call.hazard.id,
                         country |-> country,
                         recipients |-> recipients], call.t)
              alert_id == tbl[Len(tbl)].alert_id
              sends == IF call.dry_run THEN <<>>
                       ELSE send_emails(recipients, call.refused)
          IN  fan_out(i + 1, call,
                [tbl |-> tbl,
                 rendered |-> Append(st.rendered,
                                [country |-> country,
                                 alert_id |-> alert_id,
                                 tracking_id |-> tracking_id,
                                 pixel |-> html_has_pixel(call.hazard.type),
                                 sends |-> sends]),
                 alert_ids |-> Append(st.alert_ids, alert_id)])

\* what the environment can do during one call of send_hazard_alert: every
\* SMTP exchange succeeds, or the one with the second recipient of a list
\* fails; without SMTP credentials every _send_email returns False
Refusals(dry_run) ==
    IF dry_run \/ ~smtp_configured THEN {{}} ELSE {{}, {2}}

NoFanout ==
    [hazard |-> NoHazard, given |-> <<>>, countries |-> <<>>,
     dry_run |-> FALSE,
     rows_before |-> 0, rendered |-> <<>>, alert_ids |-> <<>>]

AlertInit ==
    /\ now = 0
    /\ alerts_loaded = FALSE
    /\ smtp_configured = FALSE
    /\ sent_alerts = <<>>
    /\ tracking_opens = <<>>
    /\ open_calls = 0
    /\ last_fanout = NoFanout

\* guerrilla_alerts.py, module level: CONFIG["smtp"] is read from the
\* environment once
LoadAlerts ==
    /\ ~alerts_loaded
    /\ alerts_loaded' = TRUE
    /\ smtp_configured' \in BOOLEAN
    /\ UNCHANGED <<now, sent_alerts, tracking_opens, open_calls, last_fanout>>

\* GuerrillaAlertSender.send_hazard_alert(hazard_data, countries, dry_run)
SendHazardAlert ==
    /\ alerts_loaded
    /\ \E c \in FanoutCalls :
         LET hazard == c.hazard
             dry_run == c.dry_run
             countries == IF c.countries = <<>> THEN _detect_countries(hazard)
                          ELSE c.countries
         IN  \E refused \in Refusals(dry_run) :
               LET call == [hazard |-> hazard, countries |-> countries,
                            dry_run |-> dry_run, t |-> now,
                            refused |-> refused]
                   st == fan_out(1, call,
                            [tbl |-> sent_alerts, rendered |-> <<>>,
                             alert_ids |-> <<>>])
               IN  /\ Len(st.tbl) <= MaxAlerts
                   /\ sent_alerts' = st.tbl
                   /\ last_fanout' =
                         [hazard |-> hazard, given |-> c.countries,
                          countries |-> countries,
                          dry_run |-> dry_run,
                          rows_before |-> Len(sent_alerts),
                          rendered |-> st.rendered,
                          alert_ids |-> st.alert_ids]
    /\ UNCHANGED <<now, alerts_loaded, smtp_configured, tracking_opens,
                   open_calls>>

\* mutant of set_opened_at: the UPDATE without "AND opened_at IS NULL"
set_opened_at_always(row, tracking_id, t) ==
    IF row.tracking_pixel_id = tracking_id
    THEN [row EXCEPT !.opened_at = t] ELSE row

\* UPDATE sent_alerts SET opened_at = ?
\* WHERE tracking_pixel_id = ? AND opened_at IS NULL
set_opened_at(row, tracking_id, t) ==
    IF row.tracking_pixel_id = tracking_id /\ row.opened_at = NULL
    THEN [row EXCEPT !.opened_at = t] ELSE row

\* mutant of open_row: the row is stamped with the epoch, not with the clock
open_row_epoch(tracking_id, t) == [tracking_id |-> tracking_id, opened_at |-> 0]

\* INSERT INTO tracking_opens (tracking_id, opened_at, ...)
\* VALUES (?, datetime.utcnow().isoformat(), ...)
open_row(tracking_id, t) == [tracking_id |-> tracking_id, opened_at |-> t]

\* tracking ids a caller of log_tracking_open can present: the ones in the
\* pixel urls of the rendered messages and the ones stored with the alerts
PresentableTrackingIds ==
    {last_fanout.rendered[k].tracking_id :
        k \in {j \in DOMAIN last_fanout.rendered : last_fanout.rendered[j].pixel}}
    \cup {sent_alerts[i].tracking_pixel_id : i \in DOMAIN sent_alerts}

\* AlertDatabase.log_tracking_open(tracking_id): the INSERT and the UPDATE each
\* read datetime.utcnow(); the clock may have moved between the two reads
LogTrackingOpen ==
    /\ alerts_loaded
    /\ Len(tracking_opens) < MaxOpens
    /\ \E tracking_id \in PresentableTrackingIds,
          t2 \in {now, now + 1} \cap (0..MaxNow) :
        /\ tracking_opens' = Append(tracking_opens, open_row(tracking_id, now))
        /\ sent_alerts' = [i \in DOMAIN sent_alerts |->
                              set_opened_at(sent_alerts[i], tracking_id, t2)]
        /\ now' = t2
    /\ open_calls' = open_calls + 1
    /\ UNCHANGED <<alerts_loaded, smtp_configured, last_fanout>>

\* time passes
Tick ==
    /\ now < MaxNow
    /\ now' = now + 1
    /\ UNCHANGED <<alerts_loaded, smtp_configured, sent_alerts, tracking_opens,
                   open_calls, last_fanout>>

AlertNext ==
    \/ LoadAlerts
    \/ SendHazardAlert
    \/ LogTrackingOpen
    \/ Tick

\* mutant of set_validated: the UPDATE flips the flag
set_validated_flip(row, alert_id) ==
    IF row.alert_id = alert_id THEN [row EXCEPT !.validated = ~@] ELSE row

\* UPDATE sent_alerts SET validated = TRUE, validation_notes = ?
\* WHERE alert_id = ?
set_validated(row, alert_id) ==
    IF row.alert_id = alert_id THEN [row EXCEPT !.validated = TRUE] ELSE row

\* alert ids a caller of log_validation can pass: the ids of the alerts sent,
\* and an id no alert has
ValidatableAlertIds ==
    {sent_alerts[i].alert_id : i \in DOMAIN sent_alerts} \cup {<<"uuid", 0>>}

\* the events a caller reports
EventTypes == {"landfall", "flooding"}

ValidationInit ==
    /\ validation_events = <<>>
    /\ validation_calls = 0

\* AlertDatabase.log_validation(alert_id, event_data): the INSERT and the
\* UPDATE are committed together
LogValidation ==
    /\ alerts_loaded
    /\ Len(validation_events) < MaxValidations
    /\ \E alert_id \in ValidatableAlertIds, event_type \in EventTypes :
        /\ validation_events' =
              Append(validation_events,
                     [alert_id |-> alert_id, event_type |-> event_type])
        /\ sent_alerts' = [i \in DOMAIN sent_alerts |->
                              set_validated(sent_alerts[i], alert_id)]
    /\ validation_calls' = validation_calls + 1
    /\ UNCHANGED <<now, alerts_loaded, smtp_configured, tracking_opens,
                   open_calls, last_fanout>>

\* alerts are sent and validated
ValidationNext ==
    \/ LoadAlerts /\ UNCHANGED validationVars
    \/ SendHazardAlert /\ UNCHANGED validationVars
    \/ LogValidation

(***************************************************************************)
(* api/hazards_api.py, api/hazards_routes.py                               *)
(***************************************************************************)

\* rows of the detections table as _query_db_cyclones sees them; lat and lon
\* in tenths of a degree, age_hours: hours since detection_time
CycloneRows ==
    [c1 |-> [id |-> "cyclone_1", lat |-> -180, lon |-> 400, age_hours |-> 1,
             track_probability |-> 80],
     c2 |-> [id |-> "cyclone_2", lat |-> -120, lon |-> 450, age_hours |-> 30,
             track_probability |-> 40]]

\* contents the detections table can have
CycloneTables == {<<>>, <<CycloneRows.c1>>, <<CycloneRows.c1, CycloneRows.c2>>}

\* the features of the geojson of a row of the floods table, as
\* _query_db_floods lists them; the two lie 0.2 degrees apart
FloodRows ==
    [f0 |-> [id |-> "flood_1_0", lat |-> -199, lon |-> 393, age_hours |-> 2],
     f1 |-> [id |-> "flood_1_1", lat |-> -197, lon |-> 395, age_hours |-> 2]]

\* contents the floods table can have: no row, or a row of two features
FloodTables == {<<>>, <<FloodRows.f0, FloodRows.f1>>}

\* what _fetch_live_cyclones can return: nothing (no service, a bad answer,
\* an exception swallowed) or one feature of the FNV3 service, which lies
\* within half a degree of cyclone_1
LiveResults ==
    {<<>>, <<[id |-> "fnv3_0", lat |-> -181, lon |-> 401, source |-> "fnv3",
              track_probability |-> 60]>>}

\* the (kind, window) pairs the handlers are called with
CacheKeys == {<<"cyclones", 24>>, <<"cyclones", 48>>, <<"floods", 48>>}

\* seconds the clock can advance by between two requests
ClockSteps == {150, 299}

\* f"cyclones_{hours}", f"floods_{hours}"
cache_key(kind, hours) == <<kind, hours>>

\* the WHERE detection_time > since of the two database queries, and the
\* dictionaries built from the rows
query_db(tbl, hours) ==
    LET recent == SelectSeq(tbl, LAMBDA row : row.age_hours < hours)
    IN  [i \in DOMAIN recent |->
            [f \in (DOMAIN recent[i] \ {"age_hours"}) \cup {"source"} |->
                IF f = "source" THEN "database" ELSE recent[i][f]]]

Abs(x) == IF x < 0 THEN -x ELSE x

\* HazardDataFetcher._deduplicate_hazards: a hazard is dropped when one that
\* was kept lies within 0.5 degrees of it in both coordinates
RECURSIVE _deduplicate_hazards(_, _)
_deduplicate_hazards(hazards, unique) ==
    IF hazards = <<>> THEN unique
    ELSE LET h == Head(hazards)
             is_dup == \E k \in DOMAIN unique :
                          /\ Abs(h.lat - unique[k].lat) < 5
                          /\ Abs(h.lon - unique[k].lon) < 5
         IN  _deduplicate_hazards(Tail(hazards),
                                  IF is_dup THEN unique ELSE Append(unique, h))

\* mutant of _is_cache_valid: an entry aged exactly the TTL is still valid
_is_cache_valid_inclusive(key) ==
    /\ key \in DOMAIN _cache_time
    /\ clock - _cache_time[key] <= cache_ttl_seconds

\* HazardDataFetcher._is_cache_valid
_is_cache_valid(key) ==
    /\ key \in DOMAIN _cache_time
    /\ clock - _cache_time[key] < cache_ttl_seconds

\* the record of a fetcher call: the key, the time, the entry the cache held
\* for the key when the call began, whether the underlying query was
\* executed, whether it raised, and what the call returned
QueryRecord(key, executed, failed, returned) ==
    [key |-> key, at |-> clock,
     had_entry |-> key \in DOMAIN _cache_time,
     entry_time |-> IF key \in DOMAIN _cache_time THEN _cache_time[key] ELSE NULL,
     entry_data |-> IF key \in DOMAIN _cache THEN _cache[key] ELSE <<>>,
     executed |-> executed, failed |-> failed, returned |-> returned]

NoQuery ==
    [key |-> <<"", 0>>, at |-> NULL, had_entry |-> FALSE, entry_time |-> NULL,
     entry_data |-> <<>>, executed |-> FALSE, failed |-> FALSE,
     returned |-> <<>>]

\* the fetcher answers from its cache
ServeFromCache(key) ==
    /\ last_query' = QueryRecord(key, FALSE, FALSE, _cache[key])
    /\ UNCHANGED <<_cache, _cache_time>>

\* the fetcher stores what it computed and returns it
StoreAndReturn(key, failed, data) ==
    /\ _cache' = (key :> data) @@ _cache
    /\ _cache_time' = (key :> clock) @@ _cache_time
    /\ last_query' = QueryRecord(key, TRUE, failed, data)

\* GET /api/hazards/cyclones: HazardDataFetcher.get_active_cyclones(hours)
GetCyclones ==
    /\ \E hours \in {k[2] : k \in {x \in CacheKeys : x[1] = "cyclones"}} :
         LET key == cache_key("cyclones", hours) IN
         IF _is_cache_valid(key) THEN ServeFromCache(key)
         ELSE \E db_raises \in BOOLEAN, live_cyclones \in LiveResults :
                LET db_cyclones == IF db_raises THEN <<>>
                                   ELSE query_db(detections_tbl, hours)
                    cyclones == _deduplicate_hazards(
                                    db_cyclones \o live_cyclones, <<>>)
                IN  StoreAndReturn(key, db_raises, cyclones)
    /\ UNCHANGED <<clock, detections_tbl, floods_tbl, routes_loaded,
                   DETECTORS_AVAILABLE, last_response>>

\* GET /api/hazards/floods: HazardDataFetcher.get_current_floods(hours)
GetFloods ==
    /\ \E hours \in {k[2] : k \in {x \in CacheKeys : x[1] = "floods"}} :
         LET key == cache_key("floods", hours) IN
         IF _is_cache_valid(key) THEN ServeFromCache(key)
         ELSE \E db_raises \in BOOLEAN :
                LET floods == IF db_raises THEN <<>>
                              ELSE query_db(floods_tbl, hours)
                IN  StoreAndReturn(key, db_raises, floods)
    /\ UNCHANGED <<clock, detections_tbl, floods_tbl, routes_loaded,
                   DETECTORS_AVAILABLE, last_response>>

\* the monitor (or anything else) writes the database the fetcher reads
DatabaseWritten ==
    /\ \/ /\ detections_tbl' \in CycloneTables \ {detections_tbl}
          /\ UNCHANGED floods_tbl
       \/ /\ floods_tbl' \in FloodTables \ {floods_tbl}
          /\ UNCHANGED detections_tbl
    /\ UNCHANGED <<clock, _cache, _cache_time, last_query, routes_loaded,
                   DETECTORS_AVAILABLE, last_response>>

\* time passes between two requests
ClockAdvance ==
    /\ \E d \in ClockSteps :
         /\ clock + d <= MaxClock
         /\ clock' = clock + d
    /\ UNCHANGED <<detections_tbl, floods_tbl, _cache, _cache_time, last_query,
                   routes_loaded, DETECTORS_AVAILABLE, last_response>>

\* a record of a feed: its id and whether a detector or provider produced it
\* from observations ("detector") or the code made it up ("demo")
Item(id, origin) == [id |-> id, origin |-> origin]

\* hazards_routes.generate_demo_hazards
generate_demo_hazards ==
    [cyclones    |-> <<Item("cyclone-001", "demo")>>,
     floods      |-> <<Item("flood-001", "demo")>>,
     landslides  |-> <<Item("landslide-001", "demo"), Item("landslide-002", "demo")>>,
     waterlogged |-> <<Item("water-001", "demo")>>]

\* how a run of TempestDetector.detect_cyclones can go: the binaries are
\* missing or the run raises (fallback), DetectNodes or StitchNodes gives no
\* file (none), or tracks are parsed (tracks)
CycloneRuns == {"fallback", "none", "tracks"}

\* tempest_detector.detect_cyclones_realtime; _fallback_detection always
\* ends with at least the cyclone of _create_demo_cyclone
detect_cyclones_realtime(run) ==
    CASE run = "fallback" -> <<Item("demo-date", "demo")>>
      [] run = "none"     -> <<>>
      [] run = "tracks"   -> <<Item("TC-date-0", "detector")>>

\* sar_flood_detector.detect_floods_from_sentinel: whether or not products
\* are found, the result is SARFloodDetector._fallback_detection()
detect_floods_from_sentinel(products_found) ==
    <<Item("flood-demo-date-001", "demo")>>

\* how LandslideRiskCalculator.calculate_risk can go: input data missing or
\* an exception (fallback), or risks computed from rainfall and slope
LandslideRuns == {"fallback", "computed"}

\* landslide_risk_calculator.calculate_landslide_risks
calculate_landslide_risks(run) ==
    CASE run = "fallback" -> <<Item("landslide-date-001", "demo"),
                               Item("landslide-date-002", "demo")>>
      [] run = "computed" -> <<Item("landslide-date-0000", "detector")>>

\* the bbox query parameter: absent, four numbers, or text float() rejects
BboxInputs == {"absent", "numbers", "malformed"}

\* id.split('-')[-1] of the flood ids that occur
last_segment(id) ==
    CASE id = "flood-demo-date-001" -> "001"
      [] id = "flood-001"           -> "001"

\* f"water-{f['id'].split('-')[-1]}" for the first two floods, else the demo
waterlogged_from(floods_data) ==
    IF floods_data # <<>>
    THEN [i \in 1..(IF Len(floods_data) < 2 THEN Len(floods_data) ELSE 2) |->
             Item("water-" \o last_segment(floods_data[i].id),
                  floods_data[i].origin)]
    ELSE generate_demo_hazards.waterlogged

\* values of the region query parameter
Regions == {"africa", "madagascar"}

NoResponse ==
    [success |-> FALSE, source |-> "", region |-> "", failed |-> FALSE,
     cyclones |-> <<>>, floods |-> <<>>, landslides |-> <<>>,
     waterlogged |-> <<>>, lastUpdated |-> NULL]

\* hazards_routes.py, module level: the import of the three processors
\* decides DETECTORS_AVAILABLE once
LoadRoutes ==
    /\ ~routes_loaded
    /\ routes_loaded' = TRUE
    /\ DETECTORS_AVAILABLE' \in BOOLEAN
    /\ UNCHANGED <<clock, detections_tbl, floods_tbl, _cache, _cache_time,
                   last_query, last_response>>

\* GET /hazards/realtime: hazards_routes.get_realtime_hazards.
\* failed records that the processors could not be imported, that the cyclone
\* or landslide run fell back, or that the handler itself raised
GetRealtimeHazards ==
    /\ routes_loaded
    /\ \E region \in Regions, bbox \in BboxInputs, cyclone_run \in CycloneRuns,
          products_found \in BOOLEAN, landslide_run \in LandslideRuns :
         last_response' =
           IF bbox = "malformed"
           THEN [success |-> FALSE, source |-> "demo", region |-> "",
                 failed |-> TRUE, lastUpdated |-> clock]
                @@ generate_demo_hazards
           ELSE IF DETECTORS_AVAILABLE
           THEN LET floods_data == detect_floods_from_sentinel(products_found)
                IN  [success |-> TRUE, source |-> "detection",
                     region |-> region,
                     failed |-> (cyclone_run = "fallback"
                                 \/ landslide_run = "fallback"),
                     cyclones |-> detect_cyclones_realtime(cyclone_run),
                     floods |-> floods_data,
                     landslides |-> calculate_landslide_risks(landslide_run),
                     waterlogged |-> waterlogged_from(floods_data),
                     lastUpdated |-> clock]
           ELSE [success |-> TRUE, source |-> "demo", region |-> region,
                 failed |-> TRUE, lastUpdated |-> clock]
                @@ generate_demo_hazards
    /\ UNCHANGED <<clock, detections_tbl, floods_tbl, _cache, _cache_time,
                   last_query, routes_loaded, DETECTORS_AVAILABLE>>

QueryInit ==
    /\ clock = 0
    /\ detections_tbl = <<>>
    /\ floods_tbl = <<>>
    /\ _cache = <<>>
    /\ _cache_time = <<>>
    /\ last_query = NoQuery
    /\ routes_loaded = FALSE
    /\ DETECTORS_AVAILABLE = FALSE
    /\ last_response = NoResponse

\* api/hazards_api.py
QueryNext ==
    \/ GetCyclones
    \/ GetFloods
    \/ DatabaseWritten
    \/ ClockAdvance

\* api/hazards_routes.py
FeedNext ==
    \/ LoadRoutes
    \/ GetRealtimeHazards
    \/ ClockAdvance

(***************************************************************************)
(* services/alert_service.py                                               *)
(***************************************************************************)

\* the phone numbers a caller passes
Phones == {"+258", "+261"}

\* phone_numbers: lists of up to MaxPhones numbers
RECURSIVE PhoneLists(_)
PhoneLists(n) ==
    IF n = 0 THEN {<<>>}
    ELSE PhoneLists(n - 1)
         \cup {Append(l, p) : l \in {x \in PhoneLists(n - 1) : Len(x) = n - 1},
                              p \in Phones}

\* how AlertService.__init__ can find the environment: credentials of
\* Twilio, of Africa's Talking, of both, or of neither
ProviderSetups ==
    {[twilio |-> t, africastalking |-> a] : t \in BOOLEAN, a \in BOOLEAN}

\* the body of the for loop of send_sms for one number. raises: the call of
\* the provider raises. calls: the calls of the provider made for the number
sms_detail(phone, raises) ==
    IF twilio_client
    THEN IF raises
         THEN [phone |-> phone, status |-> "failed", provider |-> "",
               error |-> "str(e)", calls |-> 1]
         ELSE [phone |-> phone, status |-> "sent", provider |-> "twilio",
               error |-> "", calls |-> 1]
    ELSE IF africastalking_client
    THEN IF raises
         THEN [phone |-> phone, status |-> "failed", provider |-> "",
               error |-> "str(e)", calls |-> 1]
         ELSE [phone |-> phone, status |-> "sent", provider |-> "africastalking",
               error |-> "", calls |-> 1]
    ELSE [phone |-> phone, status |-> "no_provider", provider |-> "",
          error |-> "", calls |-> 0]

\* alert_type of an AlertRequest
AlertTypes == {"cyclone", "outbreak"}

\* datetime.now().strftime('%Y%m%d%H%M%S'): the time to the whole second
strftime(t) == t \div 2

\* AlertService.create_cyclone_alert, create_outbreak_alert: the Alert made
\* at time t (id and type; the texts are left out)
create_alert(alert_type, t) ==
    [id |-> <<IF alert_type = "cyclone" THEN "CYC-" ELSE "OUT-", strftime(t)>>,
     type |-> alert_type]

\* results["sent"], results["failed"]
CountStatus(details, status) ==
    Cardinality({i \in DOMAIN details : details[i].status = status})

NoSms == [phone_numbers |-> <<>>, called |-> FALSE, details |-> <<>>,
          sent |-> 0, failed |-> 0]

SmsInit ==
    /\ service_made = FALSE
    /\ twilio_client = FALSE
    /\ africastalking_client = FALSE
    /\ service_alerts_sent = <<>>
    /\ service_clock = 0
    /\ last_sms = NoSms

\* AlertService.__init__
MakeService ==
    /\ ~service_made
    /\ service_made' = TRUE
    /\ \E setup \in ProviderSetups :
         /\ twilio_client' = setup.twilio
         /\ africastalking_client' = setup.africastalking
    /\ UNCHANGED <<service_alerts_sent, service_clock, last_sms>>

\* POST /api/alerts/send: send_alert creates the alert and calls
\* AlertService.send_sms(alert, phone_numbers)
SendAlert ==
    /\ service_made
    /\ Len(service_alerts_sent) < MaxSms
    /\ \E phone_numbers \in PhoneLists(MaxPhones), alert_type \in AlertTypes :
       \E raising \in SUBSET (IF twilio_client \/ africastalking_client
                              THEN DOMAIN phone_numbers ELSE {}) :
         LET alert == create_alert(alert_type, service_clock)
             details == [i \in DOMAIN phone_numbers |->
                            sms_detail(phone_numbers[i], i \in raising)]
             sent == CountStatus(details, "sent")
             failed == CountStatus(details, "failed")
         IN  /\ last_sms' = [phone_numbers |-> phone_numbers, called |-> TRUE,
                             details |-> details, sent |-> sent,
                             failed |-> failed]
             /\ service_alerts_sent' =
                    Append(service_alerts_sent,
                           [alert_id |-> alert.id, type |-> alert.type,
                            recipients |-> Len(phone_numbers),
                            sent |-> sent, failed |-> failed])
    /\ UNCHANGED <<service_made, twilio_client, africastalking_client,
                   service_clock>>

\* half a second passes
ServiceTick ==
    /\ service_clock < MaxServiceClock
    /\ service_clock' = service_clock + 1
    /\ UNCHANGED <<service_made, twilio_client, africastalking_client,
                   service_alerts_sent, last_sms>>

SmsNext ==
    \/ MakeService
    \/ SendAlert
    \/ ServiceTick

(***************************************************************************)
(* data_sources/who_fetcher.py                                             *)
(***************************************************************************)

\* outbreaks as process_outbreak builds them (the fields check_convergence
\* reads, and who_id); all are in Beira, and severity is what
\* calculate_severity gives for the cases
OutbreakRecords ==
    { [who_id |-> "DON-1", disease |-> "Cholera", location |-> "Beira",
       severity |-> "high", cases |-> 120],
      [who_id |-> "DON-2", disease |-> "Malaria", location |-> "Beira",
       severity |-> "medium", cases |-> 40],
      [who_id |-> "DON-3", disease |-> "Measles", location |-> "Beira",
       severity |-> "high", cases |-> 250],
      [who_id |-> "DON-4", disease |-> "Dengue", location |-> "Beira",
       severity |-> "low", cases |-> 0] }

\* geodesic distances from Beira at which a cyclone can be, in hundredths of
\* a kilometre: either side of the two thresholds, and values that round to
\* a threshold
DistancePoints == {19990, 19996, 20000, 49996, 50000}

\* cyclones handed to check_convergence; a location is named by its geodesic
\* distance from Beira
CycloneRecords ==
    { [id |-> id, location |-> [from_beira |-> dist],
       track_probability |-> 80, threat_level |-> "TROPICAL_STORM"] :
         id \in {"TC-1", "TC-2"}, dist \in DistancePoints }

\* the lists of length up to n over a set
RECURSIVE ListsUpTo(_, _)
ListsUpTo(S, n) ==
    IF n = 0 THEN {<<>>}
    ELSE ListsUpTo(S, n - 1)
         \cup {Append(l, x) : l \in {y \in ListsUpTo(S, n - 1) : Len(y) = n - 1},
                              x \in S}

\* geodesic(outbreak_loc, cyclone_loc).kilometers, in hundredths
geodesic(outbreak, cyclone) == cyclone.location.from_beira

\* round(distance, 1): hundredths to tenths, a tie going to the even tenth
round_1(distance) ==
    LET q == distance \div 10
        r == distance % 10
    IN  IF r < 5 THEN q
        ELSE IF r > 5 THEN q + 1
        ELSE IF q % 2 = 0 THEN q ELSE q + 1

\* mutant of is_high: a distance of exactly 200 km is HIGH
is_high_inclusive(distance) == distance <= high_priority_km

\* 'HIGH' if distance < 200 else 'MEDIUM'
is_high(distance) == distance < high_priority_km

Min(a, b) == IF a < b THEN a ELSE b

Max(a, b) == IF a > b THEN a ELSE b

\* round(risk, 3): millionths to thousandths, a tie going to the even
\* thousandth
round_3(risk) ==
    LET q == risk \div 1000
        r == risk % 1000
    IN  IF r < 500 THEN q
        ELSE IF r > 500 THEN q + 1
        ELSE IF q % 2 = 0 THEN q ELSE q + 1

\* severity_scores.get(outbreak['severity'], 0.5), in millionths
severity_scores(severity) ==
    CASE severity = "low"    -> 200000
      [] severity = "medium" -> 500000
      [] severity = "high"   -> 800000
      [] OTHER               -> 500000

\* mutant of cases_factor: the factor is not capped at 1.0
cases_factor_uncapped(cases) == cases * 5000

\* min(1.0, outbreak['cases'] / 200), in millionths
cases_factor(cases) == Min(1000000, cases * 5000)

\* WHOAFROFetcher.calculate_convergence_risk; distance_km in hundredths of a
\* kilometre, track_probability in hundredths, the result in thousandths
calculate_convergence_risk(outbreak, cyclone, distance_km) ==
    LET distance_factor == Max(0, 1000000 - 20 * distance_km)
        risk == (distance_factor * 3) \div 10
                + (severity_scores(outbreak.severity) * 3) \div 10
                + (cyclone.track_probability * 10000 * 2) \div 10
                + (cases_factor(outbreak.cases) * 2) \div 10
    IN  round_3(risk)

\* the dictionary check_convergence builds for a pair
convergence_record(outbreak, cyclone, distance) ==
    [outbreak |-> [disease |-> outbreak.disease, location |-> outbreak.location,
                   severity |-> outbreak.severity, cases |-> outbreak.cases],
     cyclone |-> [location |-> cyclone.location,
                  probability |-> cyclone.track_probability,
                  threat_level |-> cyclone.threat_level],
     distance_km |-> round_1(distance),
     risk_score |-> calculate_convergence_risk(outbreak, cyclone, distance),
     alert_priority |-> IF is_high(distance) THEN "HIGH" ELSE "MEDIUM"]

\* WHOAFROFetcher.check_convergence: the two nested loops from outbreak i and
\* cyclone j on. made: for each record of the list, the positions of the pair
\* and its distance
RECURSIVE check_convergence(_, _, _, _, _)
check_convergence(outbreaks, cyclone_data, i, j, acc) ==
    IF i > Len(outbreaks) THEN acc
    ELSE IF j > Len(cyclone_data)
    THEN check_convergence(outbreaks, cyclone_data, i + 1, 1, acc)
    ELSE
      LET distance == geodesic(outbreaks[i], cyclone_data[j]) IN
      check_convergence(outbreaks, cyclone_data, i, j + 1,
        IF distance < distance_threshold_km
        THEN [convergences |->
                Append(acc.convergences,
                       convergence_record(outbreaks[i], cyclone_data[j], distance)),
              made |-> Append(acc.made,
                              [i |-> i, j |-> j, distance |-> distance])]
        ELSE acc)

NoCheck == [called |-> FALSE, outbreaks |-> <<>>, cyclone_data |-> <<>>,
            convergences |-> <<>>, made |-> <<>>]

ConvInit == last_check = NoCheck

\* the call of WHOAFROFetcher.check_convergence(outbreaks, cyclone_data) of a
\* pipeline run; what a call returns does not depend on the calls before it
CheckConvergence ==
    /\ ~last_check.called
    /\ \E outbreaks \in ListsUpTo(OutbreakRecords, MaxOutbreaks),
          cyclone_data \in ListsUpTo(CycloneRecords, MaxCycloneData) :
         LET res == check_convergence(outbreaks, cyclone_data, 1, 1,
                        [convergences |-> <<>>, made |-> <<>>])
         IN  last_check' = [called |-> TRUE, outbreaks |-> outbreaks,
                               cyclone_data |-> cyclone_data,
                               convergences |-> res.convergences,
                               made |-> res.made]

ConvNext == CheckConvergence

(***************************************************************************)
(* api/hazards_api.py, get_convergences                                    *)
(***************************************************************************)

\* the outbreaks WHO reports when get_convergences is called: none, or one
OutbreakSets == {<<>>} \cup {<<o>> : o \in {x \in OutbreakRecords : x.who_id = "DON-2"}}

\* the loop of get_convergences over the cyclones: one dictionary for each
\* cyclone whose track_probability is above 0.5
convergences_of(cyclones) ==
    LET likely == SelectSeq(cyclones, LAMBDA c : c.track_probability > 50)
    IN  [i \in DOMAIN likely |->
            [id |-> "convergence_" \o likely[i].id,
             lat |-> likely[i].lat, lon |-> likely[i].lon,
             outbreak_type |-> "cholera",
             threat_score |-> (likely[i].track_probability * 8) \div 10]]

NoUnified == [called |-> FALSE, hours |-> 0, outbreaks |-> <<>>,
              cyclones |-> <<>>, convergences |-> <<>>]

UnifiedInit == last_unified = NoUnified

\* GET /api/hazards/convergences: HazardDataFetcher.get_convergences(hours),
\* which begins with get_active_cyclones(hours)
GetConvergences ==
    /\ \E hours \in {k[2] : k \in {x \in CacheKeys : x[1] = "cyclones"}},
          outbreaks \in OutbreakSets :
         LET key == cache_key("cyclones", hours) IN
         /\ IF _is_cache_valid(key) THEN ServeFromCache(key)
            ELSE \E db_raises \in BOOLEAN, live_cyclones \in LiveResults :
                   LET db_cyclones == IF db_raises THEN <<>>
                                      ELSE query_db(detections_tbl, hours)
                       cyclones == _deduplicate_hazards(
                                       db_cyclones \o live_cyclones, <<>>)
                   IN  StoreAndReturn(key, db_raises, cyclones)
         /\ last_unified' =
                [called |-> TRUE, hours |-> hours, outbreaks |-> outbreaks,
                 cyclones |-> last_query'.returned,
                 convergences |-> convergences_of(last_query'.returned)]
    /\ UNCHANGED <<clock, detections_tbl, floods_tbl, routes_loaded,
                   DETECTORS_AVAILABLE, last_response>>

UnifiedNext ==
    \/ GetConvergences
    \/ DatabaseWritten /\ UNCHANGED unifiedVars
    \/ ClockAdvance /\ UNCHANGED unifiedVars

(***************************************************************************)
(* detection/realtime_monitor.py: from an adapter's detection to its row   *)
(***************************************************************************)

\* Wind speeds are in units of 1/2430 m/s and knots in units of 1/10000 kt,
\* so that wind_ms * 1.944 is the whole number wind_ms * 8. Latitudes and
\* longitudes are in tenths of a degree.

\* CONFIG["region"]
region == [north |-> 0, south |-> -350, west |-> 200, east |-> 800]

\* maxima of the 10 m wind a timestep of an ERA5 file can hold: below
\* min_wind_ms, 17 m/s, and either side of each class boundary (34.0, 63.9,
\* 64.0, 83.0, 96.0, 113.0 and 137.0 kt and the value just below)
Winds == {41309, 41310, 42499, 42500, 79875, 79999, 80000, 103749, 103750,
          119999, 120000, 141249, 141250, 171249, 171250}

\* what detect_from_era5 reads of a timestep: the minimum of the pressure
\* field, where it lies, and the maximum of the wind field
Timesteps ==
    { [min_pressure |-> p, lat |-> l[1], lon |-> l[2], max_wind |-> w] :
        p \in {990, 1005}, l \in {<<-180, 400>>, <<50, 400>>}, w \in Winds }

\* features of the answer of /api/cyclones: GeoJSON coordinates [lon, lat]
\* as the service gives them, and the properties, which may lack
\* threat_level
Features ==
    { [geometry |-> [coordinates |-> c], properties |-> pr] :
        c \in {<<400, -180>>, <<-180, 400>>, <<1900, -950>>},
        pr \in { [track_probability |-> 80],
                 [track_probability |-> 80, threat_level |-> "TROPICAL_STORM"],
                 [track_probability |-> 60, threat_level |-> "HURRICANE"] } }

\* dict.get(key, default)
get(dict, key, default) == IF key \in DOMAIN dict THEN dict[key] ELSE default

\* CycloneDetector._get_threat_level
_get_threat_level(wind_ms) ==
    LET wind_kt == wind_ms * 8
    IN  IF wind_kt >= 1370000 THEN "CAT5"
        ELSE IF wind_kt >= 1130000 THEN "CAT4"
        ELSE IF wind_kt >= 960000 THEN "CAT3"
        ELSE IF wind_kt >= 830000 THEN "CAT2"
        ELSE IF wind_kt >= 640000 THEN "CAT1"
        ELSE IF wind_kt >= 340000 THEN "TS"
        ELSE "TD"

\* CycloneDetector.detect_from_era5 for one timestep: the detections it
\* appends (confidence, which no property of the columns reads, is left out)
detect_from_era5(ts) ==
    IF ~(ts.min_pressure < min_pressure_hpa) THEN <<>>
    ELSE IF ~(region.south <= ts.lat /\ ts.lat <= region.north
              /\ region.west <= ts.lon /\ ts.lon <= region.east) THEN <<>>
    ELSE IF ~(ts.max_wind >= min_wind_ms) THEN <<>>
    ELSE << [lat |-> ts.lat, lon |-> ts.lon,
             min_pressure_hpa |-> ts.min_pressure,
             max_wind_ms |-> ts.max_wind,
             max_wind_kt |-> ts.max_wind * 8,
             source |-> "era5",
             threat_level |-> _get_threat_level(ts.max_wind)] >>

\* FNV3Source.fetch_latest for one feature: the detection it appends
fetch_latest(feature) ==
    LET props == feature.properties
        coords == feature.geometry.coordinates
    IN  << [lat |-> coords[2], lon |-> coords[1],
            track_probability |-> get(props, "track_probability", 0),
            threat_level |-> get(props, "threat_level", "unknown"),
            source |-> "fnv3",
            confidence |-> get(props, "track_probability", 0)] >>

\* CycloneDatabase.save_detection: the row of the INSERT with the columns the
\* adapters fill; a key the detection lacks gives NULL
detection_row(tbl, detection, t) ==
    [id |-> Len(tbl) + 1,
     detection_time |-> t,
     lat |-> get(detection, "lat", NULL),
     lon |-> get(detection, "lon", NULL),
     max_wind_ms |-> get(detection, "max_wind_ms", NULL),
     max_wind_kt |-> get(detection, "max_wind_kt", NULL),
     source |-> get(detection, "source", "unknown"),
     track_probability |-> get(detection, "track_probability", NULL),
     threat_level |-> get(detection, "threat_level", "NULL")]

\* for detection in all_detections: self.db.save_detection(detection)
RECURSIVE save_all(_, _, _)
save_all(tbl, all, t) ==
    IF all = <<>> THEN tbl
    ELSE save_all(Append(tbl, detection_row(tbl, Head(all), t)), Tail(all), t)

DetectInit ==
    /\ saved = <<>>
    /\ monitor_clock = 0

\* the statements of run_once take time
TimePasses ==
    monitor_clock' \in {monitor_clock, monitor_clock + 1} \cap (0..MaxMonitorClock)

\* run_once with an ERA5 file of one timestep: detect_from_era5, then the
\* save of what it found
SaveERA5 ==
    /\ Len(saved) < MaxSaved
    /\ \E ts \in Timesteps :
         saved' = save_all(saved, detect_from_era5(ts), monitor_clock)
    /\ TimePasses

\* run_once with an FNV3 answer of one feature: fetch_latest, then the save
\* of the detection
SaveFNV3 ==
    /\ Len(saved) < MaxSaved
    /\ \E feature \in Features :
         saved' = save_all(saved, fetch_latest(feature), monitor_clock)
    /\ TimePasses

DetectNext ==
    \/ SaveERA5
    \/ SaveFNV3

(***************************************************************************)
(* detection/landslide_risk.py: the risk of a terrain cell                 *)
(*                                                                         *)
(* Slopes are in degrees and rainfall in mm.  The factors are in tenths,   *)
(* the score in ten-thousandths, the returned risk_score in thousandths.   *)
(***************************************************************************)

\* CONFIG["thresholds"]
thresholds ==
    [slope_low |-> 10, slope_medium |-> 15, slope_high |-> 25,
     slope_extreme |-> 35,
     rainfall_low |-> 50, rainfall_medium |-> 100, rainfall_high |-> 200,
     rainfall_extreme |-> 400]

\* terrain["slope"][i][j] and rainfall_mm of the assessments that are followed
Slopes == {9, 10, 14, 15, 24, 25, 34, 35}
Rainfalls == {49, 50, 99, 100, 199, 200, 399, 400}

RECURSIVE SlopeRows(_)
SlopeRows(n) ==
    IF n = 0 THEN {<<>>}
    ELSE LET shorter == SlopeRows(n - 1)
         IN shorter \cup {Append(row, slope) :
                            row \in {r \in shorter : Len(r) = n - 1},
                            slope \in Slopes}

\* floor of the square root of n, looked for between lo and hi
RECURSIVE sqrt_between(_, _, _)
sqrt_between(n, lo, hi) ==
    IF hi - lo <= 1 THEN lo
    ELSE LET mid == (lo + hi) \div 2
         IN IF mid * mid <= n THEN sqrt_between(n, mid, hi)
            ELSE sqrt_between(n, lo, mid)

\* np.sqrt of a product of two factors (hundredths), in ten-thousandths
np_sqrt(product) == sqrt_between(product * 1000000, 0, 10001)

\* round(np.sqrt(product), 3), in thousandths: the nearest thousandth
round_sqrt_3(product) == (sqrt_between(4 * product * 10000, 0, 2001) + 1) \div 2

slope_factor_exclusive(slope) ==
    IF slope >= thresholds.slope_extreme THEN 10
    ELSE IF slope >= thresholds.slope_high THEN 8
    ELSE IF slope > thresholds.slope_medium THEN 5
    ELSE IF slope >= thresholds.slope_low THEN 2
    ELSE 0

slope_factor(slope) ==
    IF slope >= thresholds.slope_extreme THEN 10
    ELSE IF slope >= thresholds.slope_high THEN 8
    ELSE IF slope >= thresholds.slope_medium THEN 5
    ELSE IF slope >= thresholds.slope_low THEN 2
    ELSE 0

rain_factor(rainfall) ==
    IF rainfall >= thresholds.rainfall_extreme THEN 10
    ELSE IF rainfall >= thresholds.rainfall_high THEN 8
    ELSE IF rainfall >= thresholds.rainfall_medium THEN 5
    ELSE IF rainfall >= thresholds.rainfall_low THEN 2
    ELSE 0

\* LandslideRiskCalculator._calculate_cell_risk(slope, rainfall): the level
\* and round(score, 3); the factors and the score are kept beside them
_calculate_cell_risk(slope, rainfall) ==
    LET product == slope_factor(slope) * rain_factor(rainfall)
        score == np_sqrt(product)
        level == IF score >= 8000 THEN "EXTREME"
                 ELSE IF score >= 5000 THEN "HIGH"
                 ELSE IF score >= 3000 THEN "MEDIUM"
                 ELSE IF score >= 1000 THEN "LOW"
                 ELSE "MINIMAL"
    IN [slope_factor |-> slope_factor(slope),
        rain_factor |-> rain_factor(rainfall),
        score |-> score,
        risk_level |-> level,
        risk_score |-> round_sqrt_3(product)]

\* zones.sort(key=lambda z: z["risk_score"], reverse=True): zone put into a
\* list sorted by descending risk_score, behind the zones of the same score
RECURSIVE insert_zone(_, _)
insert_zone(sorted, zone) ==
    IF sorted = <<>> THEN <<zone>>
    ELSE IF Head(sorted).risk_score >= zone.risk_score
         THEN <<Head(sorted)>> \o insert_zone(Tail(sorted), zone)
         ELSE <<zone>> \o sorted

RECURSIVE _cluster_zones(_)
_cluster_zones(zones) ==
    IF zones = <<>> THEN <<>>
    ELSE LET n == Len(zones)
         IN insert_zone(_cluster_zones(SubSeq(zones, 1, n - 1)), zones[n])

\* the loop of _calculate_risk_zones over the cells from the j-th on
RECURSIVE risk_zones_from(_, _, _)
risk_zones_from(slopes, rainfall_mm, j) ==
    IF j > Len(slopes) THEN <<>>
    ELSE LET cell == _calculate_cell_risk(slopes[j], rainfall_mm)
             rest == risk_zones_from(slopes, rainfall_mm, j + 1)
         IN IF cell.risk_level \in {"HIGH", "EXTREME"}
            THEN <<[lon |-> j, slope_deg |-> slopes[j],
                    rainfall_mm |-> rainfall_mm,
                    risk_level |-> cell.risk_level,
                    risk_score |-> cell.risk_score]>> \o rest
            ELSE rest

\* clustered[:50]
top_zones == 50

\* LandslideRiskCalculator._calculate_risk_zones(terrain, rainfall_mm) for a
\* terrain of one latitude
_calculate_risk_zones(slopes, rainfall_mm) ==
    LET clustered == _cluster_zones(risk_zones_from(slopes, rainfall_mm, 1))
    IN SubSeq(clustered, 1, Min(Len(clustered), top_zones))

NoAssessment == [called |-> FALSE]

LandslideInit == last_assessment = NoAssessment

\* one call of _calculate_risk_zones
CalculateRiskZones ==
    /\ ~last_assessment.called
    /\ \E slopes \in SlopeRows(MaxCells) \ {<<>>}, rainfall_mm \in Rainfalls :
         last_assessment' =
             [called |-> TRUE, slope |-> slopes, rainfall_mm |-> rainfall_mm,
              cells |-> [j \in DOMAIN slopes |->
                            _calculate_cell_risk(slopes[j], rainfall_mm)],
              zones |-> _calculate_risk_zones(slopes, rainfall_mm)]

LandslideNext == CalculateRiskZones

Init ==
    /\ MonitorInit /\ AlertInit /\ QueryInit /\ SmsInit /\ ConvInit
    /\ UnifiedInit /\ DetectInit /\ ValidationInit /\ LandslideInit

Next ==
    \/ MonitorNext /\ UNCHANGED <<alertVars, queryVars, smsVars, convVars, unifiedVars, detectVars, validationVars, landslideVars>>
    \/ AlertNext /\ UNCHANGED <<monitorVars, queryVars, smsVars, convVars, unifiedVars, detectVars, validationVars, landslideVars>>
    \/ QueryNext /\ UNCHANGED <<monitorVars, alertVars, smsVars, convVars, unifiedVars, detectVars, validationVars, landslideVars>>
    \/ FeedNext /\ UNCHANGED <<monitorVars, alertVars, smsVars, convVars, unifiedVars, detectVars, validationVars, landslideVars>>
    \/ SmsNext /\ UNCHANGED <<monitorVars, alertVars, queryVars, convVars, unifiedVars, detectVars, validationVars, landslideVars>>
    \/ ConvNext /\ UNCHANGED <<monitorVars, alertVars, queryVars, smsVars, unifiedVars, detectVars, validationVars, landslideVars>>
    \/ UnifiedNext /\ UNCHANGED <<monitorVars, alertVars, smsVars, convVars, detectVars, validationVars, landslideVars>>
    \/ DetectNext /\ UNCHANGED <<monitorVars, alertVars, queryVars, smsVars, convVars, unifiedVars, validationVars, landslideVars>>
    \/ ValidationNext /\ UNCHANGED <<monitorVars, queryVars, smsVars, convVars, unifiedVars, detectVars, landslideVars>>
    \/ LandslideNext /\ UNCHANGED <<monitorVars, alertVars, queryVars, smsVars, convVars, unifiedVars, detectVars, validationVars>>

Spec == Init /\ [][Next]_vars

SpecMonitor == Init /\ [][MonitorNext /\ UNCHANGED <<alertVars, queryVars, smsVars, convVars, unifiedVars, detectVars, validationVars, landslideVars>>]_vars

SpecAlerts == Init /\ [][AlertNext /\ UNCHANGED <<monitorVars, queryVars, smsVars, convVars, unifiedVars, detectVars, validationVars, landslideVars>>]_vars

SpecQuery == Init /\ [][QueryNext /\ UNCHANGED <<monitorVars, alertVars, smsVars, convVars, unifiedVars, detectVars, validationVars, landslideVars>>]_vars

SpecFeed == Init /\ [][FeedNext /\ UNCHANGED <<monitorVars, alertVars, smsVars, convVars, unifiedVars, detectVars, validationVars, landslideVars>>]_vars

SpecSms == Init /\ [][SmsNext /\ UNCHANGED <<monitorVars, alertVars, queryVars, convVars, unifiedVars, detectVars, validationVars, landslideVars>>]_vars

SpecConvergence ==
    Init /\ [][ConvNext /\ UNCHANGED <<monitorVars, alertVars, queryVars, smsVars, unifiedVars, detectVars, validationVars, landslideVars>>]_vars

SpecUnified ==
    Init /\ [][UnifiedNext /\ UNCHANGED <<monitorVars, alertVars, smsVars, convVars, detectVars, validationVars, landslideVars>>]_vars

SpecDetect ==
    Init /\ [][DetectNext /\ UNCHANGED <<monitorVars, alertVars, queryVars, smsVars, convVars, unifiedVars, validationVars, landslideVars>>]_vars

SpecValidation ==
    Init /\ [][ValidationNext /\ UNCHANGED <<monitorVars, queryVars, smsVars, convVars, unifiedVars, detectVars, landslideVars>>]_vars

SpecLandslide ==
    Init /\ [][LandslideNext /\ UNCHANGED <<monitorVars, alertVars, queryVars, smsVars, convVars, unifiedVars, detectVars, validationVars>>]_vars

(***************************************************************************)
(* Claims about the monitor cycle                                          *)
(***************************************************************************)

\* rows of a table written by cycle c
RowsOf(tbl, c) == {i \in DOMAIN tbl : tbl[i].cycle = c}

\* cycles whose run_once has returned or raised
EndedCycles == (1..cycle) \ in_progress

\* the run_once in progress has written an alert row
AlertWrittenThisCycle == cycle \in in_progress /\ RowsOf(alerts, cycle) # {}

\* C1 (as claimed): every invocation of run_once that has ended has inserted
\* exactly one monitor_runs row, whichever step failed, the write of the run
\* record included.
C1_ExactlyOneRunRow ==
    \A c \in EndedCycles : Cardinality(RowsOf(monitor_runs, c)) = 1

AppendedByCurrentCycle(old, new) ==
    \A i \in DOMAIN new :
        i > Len(old) => (new[i].cycle = cycle /\ cycle \in in_progress)

\* C4: cycles are strictly serial: at most one cycle is in progress, it is the
\* latest one started, every earlier cycle has ended with its monitor_runs row
\* written, and every row written to detections, alerts or monitor_runs is
\* written by the cycle in progress.
C4_CyclesSerial ==
    [][/\ Cardinality(in_progress') <= 1
       /\ in_progress' \subseteq {cycle'}
       /\ \A c \in 1..cycle' :
            (c < cycle') => (c \notin in_progress' /\ RowsOf(monitor_runs', c) # {})
       /\ AppendedByCurrentCycle(detections, detections')
       /\ AppendedByCurrentCycle(alerts, alerts')
       /\ AppendedByCurrentCycle(monitor_runs, monitor_runs')]_vars

\* C4 witness: the second cycle is fetching and the first cycle's detections,
\* alert and run record are all in the tables.
C4_Witness ==
    /\ cycle = 2
    /\ pc = "fetch_fnv3"
    /\ RowsOf(detections, 1) # {}
    /\ RowsOf(alerts, 1) # {}
    /\ RowsOf(monitor_runs, 1) # {}

(***************************************************************************)
(* Claims about the alert fan-out and the tracking of opens                *)
(***************************************************************************)

\* rows of sent_alerts written by the latest send_hazard_alert
FanoutRows == (last_fanout.rows_before + 1)..Len(sent_alerts)

\* entries of the country list that have a recipient table
RoutedCountries ==
    SelectSeq(last_fanout.countries,
              LAMBDA c : c \in DOMAIN INSTITUTIONAL_RECIPIENTS)

\* the last fan-out was live and an SMTP exchange of it failed
SomeSendFailed ==
    /\ ~last_fanout.dry_run
    /\ \E k \in DOMAIN last_fanout.rendered :
         \E r \in DOMAIN last_fanout.rendered[k].sends :
            ~last_fanout.rendered[k].sends[r]

\* C2 (as claimed): at most one alert is recorded per (hazard_id, country) within
\* any 6-hour window: two sent_alerts rows for the same hazard and country are
\* at least 6 hours apart.
C2_OneAlertPerWindow ==
    \A i, j \in DOMAIN sent_alerts :
        (/\ i < j
         /\ sent_alerts[i].hazard_id = sent_alerts[j].hazard_id
         /\ sent_alerts[i].country = sent_alerts[j].country)
        => sent_alerts[j].sent_at - sent_alerts[i].sent_at >= 6

C6_PixelIdIsStoredId ==
    \A k \in DOMAIN last_fanout.rendered :
        \A i \in DOMAIN sent_alerts :
            sent_alerts[i].alert_id = last_fanout.rendered[k].alert_id
            => sent_alerts[i].tracking_pixel_id = last_fanout.rendered[k].tracking_id

\* opens logged for a tracking id
OpensOf(tracking_id) ==
    {j \in DOMAIN tracking_opens : tracking_opens[j].tracking_id = tracking_id}

\* an alert's opened_at against the opens logged for its tracking id
OpenedAtIsFirstOpen(alert_rows, open_rows) ==
    \A i \in DOMAIN alert_rows :
        LET a == alert_rows[i]
            opens == {j \in DOMAIN open_rows :
                         open_rows[j].tracking_id = a.tracking_pixel_id}
            first == CHOOSE j \in opens : \A k \in opens : j <= k
        IN  IF opens = {} THEN a.opened_at = NULL
            ELSE /\ a.opened_at # NULL
                 /\ open_rows[first].opened_at <= a.opened_at
                 /\ \A j \in opens \ {first} : a.opened_at <= open_rows[j].opened_at

\* C7: log_tracking_open inserts one tracking_opens row per call; an alert's
\* opened_at is set by the first open of its tracking id (to the time read
\* during that call, which no later open precedes) and no later open
\* overwrites it.
C7_FirstOpenSticks ==
    [][/\ Len(tracking_opens') - Len(tracking_opens) = open_calls' - open_calls
       /\ OpenedAtIsFirstOpen(sent_alerts', tracking_opens')
       /\ \A i \in DOMAIN sent_alerts :
            sent_alerts[i].opened_at # NULL
            => sent_alerts'[i].opened_at = sent_alerts[i].opened_at]_vars

\* C7 witness: an alert was opened twice, the second time later than the
\* opened_at it carries.
C7_Witness ==
    \E i \in DOMAIN sent_alerts :
        LET a == sent_alerts[i]
            opens == OpensOf(a.tracking_pixel_id)
        IN  /\ Cardinality(opens) = 2
            /\ a.opened_at # NULL
            /\ \E j \in opens : tracking_opens[j].opened_at > a.opened_at

(***************************************************************************)
(* Claims about the hazards API                                            *)
(***************************************************************************)

\* the records of the latest answer of get_realtime_hazards
ResponseItems ==
    last_response.cyclones \o last_response.floods
    \o last_response.landslides \o last_response.waterlogged

\* C8 (as claimed): the unified hazards query never returns a record that no
\* detector or provider produced, and when detection or the handler fails
\* the answer's source is "unavailable".
C8_NoFabricatedRecords ==
    /\ \A k \in DOMAIN ResponseItems : ResponseItems[k].origin = "detector"
    /\ last_response.failed => last_response.source = "unavailable"

\* age of the cache entry the latest fetcher call found
EntryAge == last_query.at - last_query.entry_time

\* C9 (as claimed): an expired cache entry is served only after the underlying
\* query has failed, and when the underlying query fails and the key has a
\* prior entry, the call returns the prior cached data.
C9_StaleServedOnFailure ==
    last_query.had_entry =>
        /\ (EntryAge >= cache_ttl_seconds /\ ~last_query.executed)
              => last_query.failed
        /\ (last_query.executed /\ last_query.failed)
              => last_query.returned = last_query.entry_data

\* C10: a fetcher call made less than cache_ttl_seconds after the entry of its
\* key was cached returns the cached data without executing the underlying
\* query; a call made once cache_ttl_seconds have elapsed executes the
\* underlying query and caches its result at the time of the call.
C10_CachedWithinTTL ==
    last_query.had_entry =>
        IF EntryAge < cache_ttl_seconds
        THEN /\ ~last_query.executed
             /\ last_query.returned = last_query.entry_data
             /\ _cache_time[last_query.key] = last_query.entry_time
        ELSE /\ last_query.executed
             /\ _cache[last_query.key] = last_query.returned
             /\ _cache_time[last_query.key] = last_query.at

\* C10 witness: a call made exactly cache_ttl_seconds after the entry was
\* cached executed the query and got data the old entry did not hold.
C10_Witness ==
    /\ last_query.had_entry
    /\ EntryAge = cache_ttl_seconds
    /\ last_query.executed
    /\ ~last_query.failed
    /\ last_query.returned # last_query.entry_data

(***************************************************************************)
(* Claims about failures in the monitor and in the dispatch                *)
(***************************************************************************)

\* C11 (as claimed): a source adapter that fails returns an empty result: in
\* a cycle whose FNV3 fetch failed, no detection of that source is in the
\* cycle's list.
C11_FailedAdapterReturnsEmpty ==
    fnv3_failed =>
        \A i \in DOMAIN all_detections : all_detections[i].source # "fnv3"

\* C12 (as claimed): a cycle that failed has its run recorded with status
\* error and leaves the daemon in its loop (sleeping, or at the loop head, or
\* in a later cycle, or stopped by a signal): it never ends the daemon.
C12_FailedCycleKeepsDaemon ==
    (result \notin {"none", "success"}) =>
        /\ result = "error"
        /\ pc # "crashed"
        /\ \E i \in DOMAIN monitor_runs : monitor_runs[i].status = "error"

\* C13: a shutdown signal that arrives while the daemon is in its sleep loop
\* is observed before more than sleep_chunk seconds have been slept: the
\* daemon starts no further cycle and is in the sleep loop with the rest of
\* one time.sleep to go, at the loop head, or stopped.
C13_CancellationWithinChunk ==
    cancellation.pending =>
        /\ cancellation.age + cancellation.remaining <= sleep_chunk
        /\ cycle = cancellation.cycle
        /\ pc \in {"sleep", "loop_head", "stopped"}

\* C13 witness: the signal arrived as a time.sleep began, the whole chunk was
\* slept, and the daemon has left its loop.
C13_Witness ==
    /\ cancellation.pending
    /\ cancellation.age = sleep_chunk
    /\ pc = "stopped"

\* C14 (as claimed): a number recorded as failed by send_sms has been retried
\* twice (three calls of the provider), no number more than that, its record
\* carries the provider's error, and every number of the call has an outcome.
C14_FailedAfterTwoRetries ==
    last_sms.called =>
        /\ Len(last_sms.details) = Len(last_sms.phone_numbers)
        /\ \A i \in DOMAIN last_sms.details :
             LET det == last_sms.details[i] IN
             /\ det.calls - 1 <= 2
             /\ det.status = "failed" => (det.calls - 1 = 2 /\ det.error # "")

\* a number of send_sms without a provider gets no_provider, unsent and
\* unfailed, with no call of a provider (the SMS side of C15)
SmsWithoutProvider ==
    (last_sms.called /\ ~twilio_client /\ ~africastalking_client) =>
        /\ Len(last_sms.details) = Len(last_sms.phone_numbers)
        /\ \A i \in DOMAIN last_sms.details :
             /\ last_sms.details[i].status = "no_provider"
             /\ last_sms.details[i].calls = 0
        /\ last_sms.sent = 0
        /\ last_sms.failed = 0

\* the last fan-out was live, without SMTP credentials
UnconfiguredFanout ==
    /\ last_fanout.hazard # NoHazard
    /\ ~last_fanout.dry_run
    /\ ~smtp_configured

\* the last fan-out went through every routed country and returned an id for
\* each
FanoutCompleted ==
    /\ Len(last_fanout.rendered) = Len(RoutedCountries)
    /\ Len(last_fanout.alert_ids) = Len(RoutedCountries)
    /\ \A k \in DOMAIN last_fanout.rendered :
         /\ last_fanout.rendered[k].country = RoutedCountries[k]
         /\ DOMAIN last_fanout.rendered[k].sends =
                DOMAIN INSTITUTIONAL_RECIPIENTS[RoutedCountries[k]]

AutoRoutedAt(lat, lon) ==
    /\ last_fanout.hazard # NoHazard
    /\ last_fanout.given = <<>>
    /\ last_fanout.hazard.lat = lat
    /\ last_fanout.hazard.lon = lon

\* the countries the last fan-out went through
RoutedSet == {last_fanout.countries[i] : i \in DOMAIN last_fanout.countries}

\* C16: a hazard at (-22.0, 35.3) is routed to exactly mozambique and
\* regional, one at (-18.9, 47.5) to exactly madagascar and regional, and one
\* at (0, 0) to nobody: nothing is rendered, sent, recorded or returned.
C16_RoutingByBox ==
    /\ AutoRoutedAt(-220, 353) => RoutedSet = {"mozambique", "regional"}
    /\ AutoRoutedAt(-189, 475) => RoutedSet = {"madagascar", "regional"}
    /\ AutoRoutedAt(0, 0) =>
         /\ RoutedSet = {}
         /\ last_fanout.rendered = <<>>
         /\ last_fanout.alert_ids = <<>>
         /\ FanoutRows = {}

\* C16 witness: rows of an earlier fan-out to madagascar and regional are in
\* the table and the last call, for a hazard at (0, 0), added none.
C16_Witness ==
    /\ AutoRoutedAt(0, 0)
    /\ {sent_alerts[i].country : i \in DOMAIN sent_alerts}
           = {"madagascar", "regional"}

\* the hazard of the last fan-out lies in the box _detect_countries tests
\* "for any South Indian Ocean system"
InBasin ==
    /\ last_fanout.hazard # NoHazard
    /\ -300 < last_fanout.hazard.lat /\ last_fanout.hazard.lat < 0
    /\ 300 < last_fanout.hazard.lon /\ last_fanout.hazard.lon < 800

\* C17 (as claimed): the fan-out of a cyclone or flood in the South Indian
\* Ocean basin includes the regional recipient list, whether the countries
\* were detected from the location or passed by the caller.
C17_RegionalAlwaysIncluded ==
    (InBasin /\ last_fanout.hazard.type \in {"cyclone", "flood"}) =>
        \E k \in DOMAIN last_fanout.rendered :
            last_fanout.rendered[k].country = "regional"

(***************************************************************************)
(* Claims about convergences                                               *)
(***************************************************************************)

\* C18 (as claimed): the list check_convergence returns holds a single record
\* for a cyclone id and an outbreak id, however often the pair is met.
C18_OneRecordPerPair ==
    \A k, l \in DOMAIN last_check.made :
        LET a == last_check.made[k]
            b == last_check.made[l]
        IN  (/\ last_check.outbreaks[a.i].who_id = last_check.outbreaks[b.i].who_id
             /\ last_check.cyclone_data[a.j].id = last_check.cyclone_data[b.j].id)
            => k = l

\* the positions (i, j) of the pairs of the last call for which keep holds of
\* the pair's distance
PairsWhere(keep(_)) ==
    { <<i, j>> \in (DOMAIN last_check.outbreaks) \X (DOMAIN last_check.cyclone_data) :
        keep(geodesic(last_check.outbreaks[i], last_check.cyclone_data[j])) }

\* the positions of the pairs the last call made a record from
PairsMade == { <<last_check.made[k].i, last_check.made[k].j>> :
                 k \in DOMAIN last_check.made }

C20_ConvergenceFromOutbreak ==
    \A k \in DOMAIN last_unified.convergences :
        /\ \E c \in DOMAIN last_unified.cyclones :
              last_unified.convergences[k].id
                  = "convergence_" \o last_unified.cyclones[c].id
        /\ \E o \in DOMAIN last_unified.outbreaks :
              last_unified.outbreaks[o].disease = "Cholera"

\* the value of the formula of the risk score for the pair a record was made
\* from, in millionths: 0.3*(1 - distance/500) + 0.3*severity_score
\* + 0.2*track_probability + 0.2*min(cases/200, 1), with severity_score 0.2
\* for low, 0.5 for medium and 0.8 for high
RiskFormula(k) ==
    LET m == last_check.made[k]
        outbreak == last_check.outbreaks[m.i]
        cyclone == last_check.cyclone_data[m.j]
        severity_score == IF outbreak.severity = "low" THEN 200000
                          ELSE IF outbreak.severity = "medium" THEN 500000
                          ELSE 800000
        capped == IF outbreak.cases >= 200 THEN 1000000 ELSE outbreak.cases * 5000
    IN  300000 - 6 * m.distance
        + (3 * severity_score) \div 10
        + 2000 * cyclone.track_probability
        + capped \div 5

\* C21 (as claimed): every convergence has risk_score equal to the value of
\* the formula, and the score lies in [0, 1].
C21_RiskScoreIsFormula ==
    \A k \in DOMAIN last_check.convergences :
        LET risk_score == last_check.convergences[k].risk_score IN
        /\ risk_score * 1000 = RiskFormula(k)
        /\ 0 <= risk_score /\ risk_score <= 1000

\* C21 (amended): every convergence has risk_score equal to the value of the
\* formula, computed on the unrounded distance, rounded to three decimals,
\* and the score lies in [0, 1].
C21_RiskScoreIsRoundedFormula ==
    \A k \in DOMAIN last_check.convergences :
        LET risk_score == last_check.convergences[k].risk_score IN
        /\ risk_score = round_3(RiskFormula(k))
        /\ 0 <= risk_score /\ risk_score <= 1000

\* C21 witness: a record for an outbreak of 250 cases (the cases term is
\* capped) at 199.96 km (the formula gives 0.780024, the record 0.78).
C21_Witness ==
    \E k \in DOMAIN last_check.convergences :
        /\ last_check.outbreaks[last_check.made[k].i].cases = 250
        /\ last_check.made[k].distance = 19996
        /\ RiskFormula(k) = 780024
        /\ last_check.convergences[k].risk_score = 780

(***************************************************************************)
(* Claims about the columns of a persisted detection                       *)
(***************************************************************************)

\* the Saffir-Simpson class of a wind in knots (units of 1/10000 kt)
SaffirSimpson(kt) ==
    CASE kt >= 1370000 -> "CAT5"
      [] kt >= 1130000 /\ kt < 1370000 -> "CAT4"
      [] kt >= 960000 /\ kt < 1130000 -> "CAT3"
      [] kt >= 830000 /\ kt < 960000 -> "CAT2"
      [] kt >= 640000 /\ kt < 830000 -> "CAT1"
      [] kt >= 340000 /\ kt < 640000 -> "TS"
      [] OTHER -> "TD"

\* C22 (as claimed): every persisted detection, from any source, has the
\* Saffir-Simpson class of its max_wind_kt as threat_level.
C22_ThreatLevelIsClass ==
    \A i \in DOMAIN saved :
        /\ saved[i].max_wind_kt # NULL
        /\ saved[i].threat_level = SaffirSimpson(saved[i].max_wind_kt)

\* the ERA5 side of C22: a row of source era5 has the class of its
\* max_wind_kt; 64.0 kt is CAT1 and 63.9 kt is TS
ERA5ThreatLevelIsClass ==
    \A i \in DOMAIN saved :
        saved[i].source = "era5" =>
            /\ saved[i].threat_level = SaffirSimpson(saved[i].max_wind_kt)
            /\ saved[i].max_wind_kt = 640000 => saved[i].threat_level = "CAT1"
            /\ saved[i].max_wind_kt = 639000 => saved[i].threat_level = "TS"

\* C23 (as claimed): every persisted detection has lat in [-90, 90], lon in
\* [-180, 180] and a detection_time not later than now; a detection outside
\* these bounds is dropped, not stored.
C23_PersistedWithinBounds ==
    \A i \in DOMAIN saved :
        /\ -900 <= saved[i].lat /\ saved[i].lat <= 900
        /\ -1800 <= saved[i].lon /\ saved[i].lon <= 1800
        /\ saved[i].detection_time <= monitor_clock

(***************************************************************************)
(* Claims about the lists the fetcher returns                              *)
(***************************************************************************)

\* two hazards lie closer than 0.5 degrees in both latitude and longitude
Close(h, u) == Abs(h.lat - u.lat) < 5 /\ Abs(h.lon - u.lon) < 5

\* C24 (as claimed): in the list a fetcher call returns, of whatever kind, no
\* two hazards lie closer than 0.5 degrees in both latitude and longitude.
C24_ResponsesDeduplicated ==
    \A i, j \in DOMAIN last_query.returned :
        i # j => ~Close(last_query.returned[i], last_query.returned[j])

\* the cyclone side of C24: a list of cyclones that was returned holds no two
\* cyclones that close
CyclonesDeduplicated ==
    last_query.key[1] = "cyclones" =>
        \A i, j \in DOMAIN last_query.returned :
            i # j => ~Close(last_query.returned[i], last_query.returned[j])

(***************************************************************************)
(* Claims about the alerts and the run record of a cycle                   *)
(***************************************************************************)

\* alert rows that reference detection row i
AlertsFor(i) ==
    {a \in DOMAIN alerts : /\ alerts[a].detection_id = detections[i].id
                           /\ alerts[a].cycle = detections[i].cycle}

\* C29: an alert row is written for a detection exactly when its confidence
\* is at least the alert threshold (0.7, a confidence of exactly 0.7 alerts):
\* a step in which check_and_alert returns appends one alert row if the
\* confidence of the detection just persisted is at least the threshold and
\* none otherwise, the row references the id of that detection row, and no
\* other step writes an alert row.
C29_AlertIffAboveThreshold ==
    [][/\ (pc = "alert" /\ pc' = "loop") =>
             LET row == detections[Len(detections)]
             IN IF row.confidence >= high_probability_threshold
                THEN /\ Len(alerts') = Len(alerts) + 1
                     /\ SubSeq(alerts', 1, Len(alerts)) = alerts
                     /\ alerts'[Len(alerts')].detection_id = row.id
                     /\ alerts'[Len(alerts')].cycle = row.cycle
                ELSE alerts' = alerts
       /\ alerts' # alerts => (pc = "alert" /\ pc' = "loop")]_vars

\* C29 witness: a cycle has ended with success in which a detection of
\* confidence exactly 0.7 got its alert row and one of confidence 0.5 got none.
C29_Witness ==
    /\ \E r \in RowsOf(monitor_runs, 1) : monitor_runs[r].status = "success"
    /\ \E i \in RowsOf(detections, 1) :
         /\ detections[i].confidence = high_probability_threshold
         /\ AlertsFor(i) # {}
    /\ \E i \in RowsOf(detections, 1) :
         /\ detections[i].confidence = 50
         /\ AlertsFor(i) = {}

\* C30 (as claimed): the monitor_runs row of a cycle records as
\* detections_count the number of detection rows the cycle persisted and as
\* alerts_sent the number of alert rows it wrote, whether the cycle ended
\* with success or with error.
C30_RunRowCounts ==
    \A r \in DOMAIN monitor_runs :
        LET c == monitor_runs[r].cycle IN
        /\ monitor_runs[r].detections_count = Cardinality(RowsOf(detections, c))
        /\ monitor_runs[r].alerts_sent = Cardinality(RowsOf(alerts, c))

\* the success side of C30: the row of a cycle that ended with success has
\* both counts right
SuccessRunRowCounts ==
    \A r \in DOMAIN monitor_runs :
        LET c == monitor_runs[r].cycle IN
        monitor_runs[r].status = "success" =>
            /\ monitor_runs[r].detections_count = Cardinality(RowsOf(detections, c))
            /\ monitor_runs[r].alerts_sent = Cardinality(RowsOf(alerts, c))

(***************************************************************************)
(* Claims about validation and about the times of opens                    *)
(***************************************************************************)

\* validation events logged for an alert id
EventsOf(events, alert_id) ==
    {e \in DOMAIN events : events[e].alert_id = alert_id}

\* C25: log_validation appends exactly one validation_events row per call,
\* for the alert id it was called with, and marks that alert validated; the
\* validated flag of an alert never returns to false, and it is true exactly
\* when at least one validation event exists for the alert's id.
C25_ValidatedIffEvent ==
    [][/\ Len(validation_events') - Len(validation_events)
            = validation_calls' - validation_calls
       /\ validation_calls' # validation_calls =>
            /\ SubSeq(validation_events', 1, Len(validation_events))
                    = validation_events
            /\ \A i \in DOMAIN sent_alerts' :
                  sent_alerts'[i].alert_id
                      = validation_events'[Len(validation_events')].alert_id
                  => sent_alerts'[i].validated
       /\ \A i \in DOMAIN sent_alerts :
            sent_alerts[i].validated => sent_alerts'[i].validated
       /\ \A i \in DOMAIN sent_alerts' :
            sent_alerts'[i].validated
                <=> EventsOf(validation_events', sent_alerts'[i].alert_id) # {}]_vars

\* C25 witness: one alert has been validated twice and is validated, another
\* alert has no validation event and is not.
C25_Witness ==
    /\ \E i \in DOMAIN sent_alerts :
         /\ sent_alerts[i].validated
         /\ Cardinality(EventsOf(validation_events, sent_alerts[i].alert_id)) = 2
    /\ \E i \in DOMAIN sent_alerts :
         /\ ~sent_alerts[i].validated
         /\ EventsOf(validation_events, sent_alerts[i].alert_id) = {}

\* C26: every tracking_opens row has an opened_at greater than or equal to
\* the sent_at of the sent_alerts row that has its tracking id.
C26_OpenedAfterSent ==
    \A j \in DOMAIN tracking_opens :
        \A i \in DOMAIN sent_alerts :
            sent_alerts[i].tracking_pixel_id = tracking_opens[j].tracking_id
            => tracking_opens[j].opened_at >= sent_alerts[i].sent_at

\* C26 witness: an alert sent after the clock had advanced has been opened,
\* in the same hour.
C26_Witness ==
    \E j \in DOMAIN tracking_opens :
        \E i \in DOMAIN sent_alerts :
            /\ sent_alerts[i].tracking_pixel_id = tracking_opens[j].tracking_id
            /\ sent_alerts[i].sent_at = 1
            /\ tracking_opens[j].opened_at = 1

(***************************************************************************)
(* Claims about the ids of alerts                                          *)
(***************************************************************************)

\* C27 (as claimed): every alert that is created has an alert_id different
\* from that of every other alert, however close in time they are created.
C27_AlertIdsUnique ==
    \A i, j \in DOMAIN service_alerts_sent :
        i # j => service_alerts_sent[i].alert_id # service_alerts_sent[j].alert_id

\* the sent_alerts side of C27: the ids log_sent_alert draws are distinct
SentAlertIdsUnique ==
    \A i, j \in DOMAIN sent_alerts :
        i # j => sent_alerts[i].alert_id # sent_alerts[j].alert_id

(***************************************************************************)
(* Claims about the landslide risk                                        *)
(***************************************************************************)

\* the stepwise factor of C28, in tenths, for the steps at low, medium, high
\* and extreme
StepFactor(x, low, medium, high, extreme) ==
    CASE x >= extreme -> 10
      [] x >= high /\ x < extreme -> 8
      [] x >= medium /\ x < high -> 5
      [] x >= low /\ x < medium -> 2
      [] x < low -> 0

====
